---- MODULE Spec2Model ----
(***************************************************************************)
(* A model of zizhang-qiu/logger: utils.h (fatal checks with a pluggable   *)
(* error handler), file.h (the File stream wrapper and the path helpers)   *)
(* and logger.h (Logger / FileLogger / NoopLogger).                        *)
(*                                                                         *)
(* Strings are sequences of one-character strings.  File contents are      *)
(* run-length encoded byte sequences whose run lengths are two-limb        *)
(* numbers (base 2^30), so that sizes at and beyond 2^31 are values of the *)
(* model and the 32-bit `int` of File::Read keeps its width.               *)
(***************************************************************************)
EXTENDS Integers, Sequences, FiniteSets, TLC

VARIABLES
  error_handler,  \* utils.h:53  the process-wide handler pointer
  proc,           \* the process: [st, code], st in running/unwinding/exited/looping
  invoked,        \* every handler invocation so far: [h, msg]
  cerr,           \* the text written to std::cerr
  checks,         \* the checks executed so far: [n, failed, last] (observation)
  last_set,       \* the argument of the latest SetErrorHandler call, or "none"
  disk,           \* the files: name -> [st, data]
  streams,        \* the FILE streams opened so far, by index (0 is the null pointer)
  objs,           \* the File objects: id -> [st, fd_]
  tree,           \* the directory tree: entry (its names from the root) -> st_mode
  denied,         \* the directories in which nothing may be created
  mk,             \* the running or finished Mkdirs call and what it did
  obs             \* what the running program has observed of its calls

fatalVars == <<error_handler, proc, invoked, cerr, checks, last_set>>
fileVars == <<disk, streams, objs>>
dirVars == <<tree, denied, mk>>
vars == <<error_handler, proc, invoked, cerr, checks, last_set,
          disk, streams, objs, tree, denied, mk, obs>>

----------------------------------------------------------------------------
(* Strings *)

Last(s) == s[Len(s)]

\* Whether the string sub occurs in the string s.
Contains(s, sub) ==
  \E i \in 1..(Len(s) + 1) :
    /\ i + Len(sub) - 1 <= Len(s)
    /\ SubSeq(s, i, i + Len(sub) - 1) = sub

IsSuffix(suf, s) ==
  /\ Len(suf) <= Len(s)
  /\ SubSeq(s, Len(s) - Len(suf) + 1, Len(s)) = suf

Digit(d) == <<"0", "1", "2", "3", "4", "5", "6", "7", "8", "9">>[d + 1]

RECURSIVE NatStr(_)
NatStr(n) == IF n < 10 THEN <<Digit(n)>>
             ELSE NatStr(n \div 10) \o <<Digit(n % 10)>>

\* operator<< of an int on an ostream: decimal digits, a leading '-'.
IntStr(n) == IF n < 0 THEN <<"-">> \o NatStr(0 - n) ELSE NatStr(n)

\* internal::SpielStrOut: out << arg1, then the rest.
RECURSIVE SpielStrOut(_, _)
SpielStrOut(out, pieces) ==
  IF pieces = <<>> THEN out
  ELSE SpielStrOut(out \o Head(pieces), Tail(pieces))

\* internal::SpielStrCat over pieces already in their streamed form.
SpielStrCat(pieces) == SpielStrOut(<<>>, pieces)

----------------------------------------------------------------------------
(* utils.h: the error handler and SpielFatalError *)

Running == [st |-> "running", code |-> 0]

\* The runtime state the fatal path reads and writes, as one record.
RT == [error_handler |-> error_handler, proc |-> proc,
       invoked |-> invoked, cerr |-> cerr]

\* std::exit(code)
std_exit(w, code) == [w EXCEPT !.proc = [st |-> "exited", code |-> code]]

FatalPrefix ==
  <<"S","p","i","e","l"," ","F","a","t","a","l"," ","E","r","r","o","r",":"," ">>

HandlerFailure ==
  <<"E","r","r","o","r"," ","h","a","n","d","l","e","r"," ",
    "f","a","i","l","u","r","e"," ","-"," ","e","x","i","t","i","n","g","\n">>

SpielDefaultErrorHandler(w, error_msg) ==
  std_exit([w EXCEPT !.cerr = @ \o FatalPrefix \o error_msg \o <<"\n", "\n">>], 1)

\* The functions a caller can install: the default, and custom handlers that
\* return, that terminate the process themselves, or that throw.
Handlers == {"SpielDefaultErrorHandler", "ReturningHandler",
             "ExitingHandler", "ThrowingHandler"}

\* A call through the handler pointer h.
CallHandler(h, w, error_msg) ==
  LET w1 == [w EXCEPT !.invoked = Append(@, [h |-> h, msg |-> error_msg])]
  IN CASE h = "SpielDefaultErrorHandler" -> SpielDefaultErrorHandler(w1, error_msg)
       [] h = "ReturningHandler" -> w1
       [] h = "ExitingHandler" -> std_exit(w1, 3)
       [] h = "ThrowingHandler" -> [w1 EXCEPT !.proc = [st |-> "unwinding", code |-> 0]]

\* A fatal path that falls off its end instead of calling std::exit.
SpielFatalError_NoExit(w, error_msg) ==
  LET w1 == CallHandler(w.error_handler, w, error_msg)
  IN IF w1.proc.st # "running" THEN w1
     ELSE [w1 EXCEPT !.cerr = @ \o HandlerFailure]

\* A fatal path that always calls the default handler.
SpielFatalError_Default(w, error_msg) ==
  LET w1 == CallHandler("SpielDefaultErrorHandler", w, error_msg)
  IN IF w1.proc.st # "running" THEN w1
     ELSE std_exit([w1 EXCEPT !.cerr = @ \o HandlerFailure], 1)

SpielFatalError(w, error_msg) ==
  LET w1 == CallHandler(w.error_handler, w, error_msg)
  IN IF w1.proc.st # "running" THEN w1
     ELSE std_exit([w1 EXCEPT !.cerr = @ \o HandlerFailure], 1)

----------------------------------------------------------------------------
(* utils.h: the check macros *)

Ops == {<<">", "=">>, <<">">>, <<"<", "=">>, <<"<">>, <<"=", "=">>, <<"!", "=">>}

Compare(x, op, y) ==
  CASE op = <<">", "=">> -> x >= y
    [] op = <<">">> -> x > y
    [] op = <<"<", "=">> -> x <= y
    [] op = <<"<">> -> x < y
    [] op = <<"=", "=">> -> x = y
    [] op = <<"!", "=">> -> x # y

\* The message of SPIEL_CHECK_OP: location, the check as written, both
\* operands as written and as evaluated.
CheckOpMessage(file, line, x_exp, op, y_exp) ==
  SpielStrCat(<<file, <<":">>, IntStr(line), <<" ">>,
                x_exp.lit \o <<" ">> \o op \o <<" ">> \o y_exp.lit,
                <<"\n">> \o x_exp.lit, <<" ", "=", " ">>, IntStr(x_exp.val),
                <<",", " ">> \o y_exp.lit \o <<" ", "=", " ">>, IntStr(y_exp.val)>>)

\* A message that leaves out the second operand's value.
SPIEL_CHECK_OP_NoY(w, file, line, x_exp, op, y_exp) ==
  IF Compare(x_exp.val, op, y_exp.val) THEN w
  ELSE SpielFatalError(w,
         SpielStrCat(<<file, <<":">>, IntStr(line), <<" ">>,
                       x_exp.lit \o <<" ">> \o op \o <<" ">> \o y_exp.lit,
                       <<"\n">> \o x_exp.lit, <<" ", "=", " ">>, IntStr(x_exp.val),
                       <<",", " ">> \o y_exp.lit \o <<" ", "=", " ">>>>))

SPIEL_CHECK_OP(w, file, line, x_exp, op, y_exp) ==
  IF Compare(x_exp.val, op, y_exp.val) THEN w
  ELSE SpielFatalError(w, CheckOpMessage(file, line, x_exp, op, y_exp))

CheckTrueText == <<" ", "C","H","E","C","K","_","T","R","U","E","(">>
CheckFalseText == <<" ", "C","H","E","C","K","_","F","A","L","S","E","(">>

\* while (!(x)) SpielFatalError(...): were the call to return, the loop would
\* test the same condition again, for ever.
SPIEL_CHECK_TRUE(w, file, line, x_exp) ==
  IF x_exp.val # 0 THEN w
  ELSE LET w1 == SpielFatalError(w,
                   SpielStrCat(<<file, <<":">>, IntStr(line), CheckTrueText,
                                 x_exp.lit, <<")">>>>))
       IN IF w1.proc.st = "running"
          THEN [w1 EXCEPT !.proc = [st |-> "looping", code |-> 0]]
          ELSE w1

SPIEL_CHECK_FALSE(w, file, line, x_exp) ==
  IF x_exp.val = 0 THEN w
  ELSE LET w1 == SpielFatalError(w,
                   SpielStrCat(<<file, <<":">>, IntStr(line), CheckFalseText,
                                 x_exp.lit, <<")">>>>))
       IN IF w1.proc.st = "running"
          THEN [w1 EXCEPT !.proc = [st |-> "looping", code |-> 0]]
          ELSE w1

----------------------------------------------------------------------------
(* Sizes and offsets: hi * 2^30 + lo with 0 <= lo < 2^30; hi < 0 is negative *)

B30 == 2^30

N(n) == [hi |-> 0, lo |-> n]

BAdd(a, b) ==
  LET s == a.lo + b.lo
  IN [hi |-> a.hi + b.hi + (s \div B30), lo |-> s % B30]

BSub(a, b) ==
  IF a.lo >= b.lo THEN [hi |-> a.hi - b.hi, lo |-> a.lo - b.lo]
  ELSE [hi |-> a.hi - b.hi - 1, lo |-> (a.lo + B30) - b.lo]

BLeq(a, b) == a.hi < b.hi \/ (a.hi = b.hi /\ a.lo <= b.lo)
BLt(a, b) == ~BLeq(b, a)

\* The conversion of a size_t to a 32-bit int: the value modulo 2^32, signed.
ToInt32(a) ==
  LET m == a.hi % 4
  IN IF m < 2 THEN [hi |-> m, lo |-> a.lo] ELSE [hi |-> m - 4, lo |-> a.lo]

----------------------------------------------------------------------------
(* Byte sequences: runs [b |-> byte, n |-> length], no two neighbours alike *)

\* The recursions below halve their argument, so that their depth stays
\* logarithmic in the number of runs.
RECURSIVE CLen(_)
CLen(c) ==
  IF c = <<>> THEN N(0)
  ELSE IF Len(c) = 1 THEN c[1].n
  ELSE LET h == Len(c) \div 2
       IN BAdd(CLen(SubSeq(c, 1, h)), CLen(SubSeq(c, h + 1, Len(c))))

CCat(a, b) ==
  IF a = <<>> THEN b
  ELSE IF b = <<>> THEN a
  ELSE IF Last(a).b = Head(b).b
       THEN SubSeq(a, 1, Len(a) - 1)
            \o <<[b |-> Head(b).b, n |-> BAdd(Last(a).n, Head(b).n)]>>
            \o Tail(b)
       ELSE a \o b

\* The number of leading runs of c, between lo and hi, that lie within the
\* first k bytes.
RECURSIVE WholeRuns(_, _, _, _)
WholeRuns(c, k, lo, hi) ==
  IF lo >= hi THEN lo
  ELSE LET mid == (lo + hi + 1) \div 2
       IN IF BLeq(CLen(SubSeq(c, 1, mid)), k)
          THEN WholeRuns(c, k, mid, hi)
          ELSE WholeRuns(c, k, lo, mid - 1)

\* The first k bytes of c.
CTake(c, k) ==
  IF c = <<>> \/ BLeq(k, N(0)) THEN <<>>
  ELSE LET j == WholeRuns(c, k, 0, Len(c))
           rest == BSub(k, CLen(SubSeq(c, 1, j)))
       IN SubSeq(c, 1, j)
          \o (IF j < Len(c) /\ BLt(N(0), rest)
              THEN <<[b |-> c[j + 1].b, n |-> rest]>> ELSE <<>>)

\* c without its first k bytes.
CDrop(c, k) ==
  IF c = <<>> \/ BLeq(k, N(0)) THEN c
  ELSE LET j == WholeRuns(c, k, 0, Len(c))
           rest == BSub(k, CLen(SubSeq(c, 1, j)))
       IN IF j = Len(c) THEN <<>>
          ELSE <<[b |-> c[j + 1].b, n |-> BSub(c[j + 1].n, rest)]>>
               \o SubSeq(c, j + 2, Len(c))

Fill(byte, k) == IF BLeq(k, N(0)) THEN <<>> ELSE <<[b |-> byte, n |-> k]>>

\* The bytes of a string.
RECURSIVE Bytes(_)
Bytes(s) ==
  IF s = <<>> THEN <<>>
  ELSE IF Len(s) = 1 THEN <<[b |-> s[1], n |-> N(1)]>>
  ELSE LET h == Len(s) \div 2
       IN CCat(Bytes(SubSeq(s, 1, h)), Bytes(SubSeq(s, h + 1, Len(s))))

\* The file c after d is written at offset at (a hole reads as NUL bytes).
WriteAt(c, at, d) ==
  LET len == CLen(c)
      gap == IF BLt(len, at) THEN Fill("NUL", BSub(at, len)) ELSE <<>>
  IN CCat(CCat(CCat(CTake(c, at), gap), d), CDrop(c, BAdd(at, CLen(d))))

----------------------------------------------------------------------------
(* The C streams file.h is written on: fopen, fflush, ftell, fseek, fread,  *)
(* fwrite, fclose.  A stream buffers its writes until it is flushed.       *)

\* The whole state the file operations read and write, as one record.
W == [error_handler |-> error_handler, proc |-> proc, invoked |-> invoked,
      cerr |-> cerr, disk |-> disk, streams |-> streams, objs |-> objs]

NullFd == 0

\* The file of stream fp with the stream's buffered writes carried out.
RECURSIVE Drained(_, _, _)
Drained(data, pend, append) ==
  IF pend = <<>> THEN data
  ELSE Drained(IF append THEN CCat(data, Head(pend).data)
               ELSE WriteAt(data, Head(pend).at, Head(pend).data),
               Tail(pend), append)

\* Carry out the buffered writes of stream fp.
Drain(w, fp) ==
  LET st == w.streams[fp]
  IN IF st.pend = <<>> THEN w
     ELSE [w EXCEPT !.disk[st.name].data = Drained(@, st.pend, st.mode = "a"),
                    !.streams[fp].pend = <<>>]

\* fopen(filename, mode) for the modes "r", "w" and "a": the new stream's index,
\* or NullFd.  "w" truncates or creates, "a" creates and starts at the end.
fopen(w, filename, mode) ==
  LET f == w.disk[filename]
      ok == IF mode = "r" THEN f.st = "present" ELSE f.st # "denied"
      data == IF mode = "w" \/ f.st = "absent" THEN <<>> ELSE f.data
      fp == Len(w.streams) + 1
  IN IF ~ok THEN [w |-> w, ret |-> NullFd]
     ELSE [w |-> [w EXCEPT !.disk[filename] = [st |-> "present", data |-> data],
                           !.streams = Append(@, [name |-> filename, mode |-> mode,
                                                   pos |-> IF mode = "a" THEN CLen(data) ELSE N(0),
                                                   pend |-> <<>>, st |-> "open", ev |-> <<>>])],
           ret |-> fp]

\* fflush(fp): 0 on success.
fflush(w, fp) ==
  [w |-> [Drain(w, fp) EXCEPT !.streams[fp].ev = Append(@, "fflush")], ret |-> 0]

\* fclose(fp): flushes, then closes the descriptor.
fclose(w, fp) ==
  [w |-> [Drain(w, fp) EXCEPT !.streams[fp].ev = Append(@, "fclose"),
                               !.streams[fp].st = "closed"],
   ret |-> 0]

ftell(w, fp) == w.streams[fp].pos

\* fseek(fp, offset, SEEK_SET): flushes; fails (-1) on a negative offset.
fseek_set(w, fp, offset) ==
  IF offset.hi < 0 THEN [w |-> Drain(w, fp), ret |-> -1]
  ELSE [w |-> [Drain(w, fp) EXCEPT !.streams[fp].pos = offset], ret |-> 0]

\* fseek(fp, 0, SEEK_END)
fseek_end(w, fp) ==
  LET w1 == Drain(w, fp)
  IN [w |-> [w1 EXCEPT !.streams[fp].pos = CLen(w1.disk[w1.streams[fp].name].data)],
      ret |-> 0]

\* fread(buf, 1, count, fp): the bytes read (none on a stream not open for reading).
fread(w, fp, count) ==
  LET st == w.streams[fp]
      got == IF st.mode # "r" THEN <<>>
             ELSE CTake(CDrop(w.disk[st.name].data, st.pos), count)
  IN [w |-> [w EXCEPT !.streams[fp].pos = BAdd(@, CLen(got))], ret |-> got]

\* fwrite(data, 1, size, fp): the number of bytes accepted (none on a stream
\* opened for reading).  An append stream writes at the end of the file.
fwrite(w, fp, data) ==
  LET st == w.streams[fp]
      end == CLen(Drained(w.disk[st.name].data, st.pend, TRUE))
  IN IF st.mode = "r" \/ data = <<>> THEN [w |-> w, ret |-> N(0)]
     ELSE [w |-> [w EXCEPT !.streams[fp].pend = Append(@, [at |-> st.pos, data |-> data]),
                           !.streams[fp].pos = BAdd(IF st.mode = "a" THEN end ELSE st.pos,
                                                    CLen(data))],
           ret |-> CLen(data)]

----------------------------------------------------------------------------
(* file.h: class File *)

FileH == <<"f", "i", "l", "e", ".", "h">>
FdExpr(fp) == [lit |-> <<"f", "d", "_">>, val |-> IF fp = NullFd THEN 0 ELSE 1]

Throw(w) == [w EXCEPT !.proc = [st |-> "unwinding", code |-> 0]]

NoObject == [st |-> "none", fd_ |-> NullFd]

\* File::File(filename, mode): fopen, then SPIEL_CHECK_TRUE(fd_) at file.h:33.
\* When the check does not come back the object was never constructed.
File_ctor(w, o, filename, mode) ==
  LET r == fopen(w, filename, mode)
      w1 == [r.w EXCEPT !.objs[o] = [st |-> "alive", fd_ |-> r.ret]]
      w2 == SPIEL_CHECK_TRUE(w1, FileH, 33, FdExpr(r.ret))
  IN IF w2.proc.st = "running" THEN w2 ELSE [w2 EXCEPT !.objs[o] = NoObject]

\* File(File&& other) = default: the unique_ptr member is moved.
File_move_ctor(w, o, other) ==
  [w EXCEPT !.objs[o] = [st |-> "alive", fd_ |-> w.objs[other].fd_],
            !.objs[other].fd_ = NullFd]

\* std::default_delete<FileImpl> on a FILE* that fopen returned: `delete` of
\* memory `new` did not allocate.  Undefined behaviour; the stream is neither
\* flushed nor closed.  Either the memory is released and the descriptor and the
\* buffered bytes are lost, or the process dies in the allocator.
default_delete(w, fp, outcome) ==
  IF outcome = "crash" THEN [w EXCEPT !.proc = [st |-> "crashed", code |-> 134]]
  ELSE [w EXCEPT !.streams[fp].st = "freed", !.streams[fp].pend = <<>>]

UBOutcomes == {"freed", "crash"}

\* File& operator=(File&& other) = default: fd_.reset(other.fd_.release()),
\* which hands the pointer it replaces to the deleter.
File_move_assign(w, o, other, outcome) ==
  LET p == w.objs[other].fd_
      w1 == [w EXCEPT !.objs[other].fd_ = NullFd]
      old == w1.objs[o].fd_
      w2 == [w1 EXCEPT !.objs[o].fd_ = p]
  IN IF old # NullFd THEN default_delete(w2, old, outcome) ELSE w2

\* bool Flush()
File_Flush(w, o) ==
  LET r == fflush(w, w.objs[o].fd_) IN [w |-> r.w, ret |-> r.ret = 0]

\* bool Close(): fclose(fd_.release())
File_Close(w, o) ==
  LET fp == w.objs[o].fd_
      r == fclose([w EXCEPT !.objs[o].fd_ = NullFd], fp)
  IN [w |-> r.w, ret |-> r.ret = 0]

\* A destructor that leaves the stream open.
File_dtor_NoClose(w, o) ==
  [w EXCEPT !.objs[o].st = "dead"]

\* ~File(): if (fd_) { Flush(); Close(); }
File_dtor(w, o) ==
  LET fp == w.objs[o].fd_
      w0 == IF fp = NullFd THEN w
            ELSE File_Close(
                   File_Flush([w EXCEPT !.streams[fp].ev = Append(@, "~File")], o).w,
                   o).w
  IN [w0 EXCEPT !.objs[o].st = "dead"]

\* std::int64_t Tell()
File_Tell(w, o) == ftell(w, w.objs[o].fd_)

\* bool Seek(offset)
File_Seek(w, o, offset) ==
  LET r == fseek_set(w, w.objs[o].fd_, offset) IN [w |-> r.w, ret |-> r.ret = 0]

\* std::string Read(count): the buffer has count bytes; the number of bytes read
\* goes through an int before the buffer is cut to it.  A negative size asks
\* resize for more than max_size(): std::length_error.
File_Read(w, o, count) ==
  IF count.hi < 0 THEN [w |-> Throw(w), ret |-> <<>>]
  ELSE LET r == fread(w, w.objs[o].fd_, count)
           read == ToInt32(CLen(r.ret))
       IN IF read.hi < 0 THEN [w |-> Throw(r.w), ret |-> <<>>]
          ELSE [w |-> r.w, ret |-> CTake(r.ret, read)]

\* bool Write(str)
File_Write(w, o, str) ==
  LET r == fwrite(w, w.objs[o].fd_, str) IN [w |-> r.w, ret |-> r.ret = CLen(str)]

\* A Length that does not seek back.
File_Length_NoRestore(w, o) ==
  LET fp == w.objs[o].fd_
      w1 == fseek_end(w, fp).w
  IN [w |-> w1, ret |-> ftell(w1, fp)]

\* std::int64_t Length(): ftell, fseek to the end, ftell, fseek back.
File_Length(w, o) ==
  LET fp == w.objs[o].fd_
      current == ftell(w, fp)
      w1 == fseek_end(w, fp).w
      length == ftell(w1, fp)
      w2 == fseek_set(w1, fp, current).w
  IN [w |-> w2, ret |-> length]

\* std::string ReadContents(): Seek(0); return Read(Length());
File_ReadContents(w, o) ==
  LET w1 == File_Seek(w, o, N(0)).w
      len == File_Length(w1, o)
  IN File_Read(len.w, o, len.ret)

\* ReadContentsFromFile(filename, mode): File f(filename, mode); return
\* f.ReadContents(); f is destroyed on the way out, also when Read throws.
ReadContentsFromFile(w, o, filename, mode) ==
  LET w1 == File_ctor(w, o, filename, mode)
  IN IF w1.proc.st # "running" THEN [w |-> w1, ret |-> <<>>]
     ELSE LET r == File_ReadContents(w1, o)
          IN [w |-> File_dtor(r.w, o), ret |-> r.ret]

\* WriteContentsToFile(filename, mode, contents): File f(filename, mode);
\* f.Write(contents); f is destroyed on the way out.
WriteContentsToFile(w, o, filename, mode, contents) ==
  LET w1 == File_ctor(w, o, filename, mode)
  IN IF w1.proc.st # "running" THEN w1
     ELSE File_dtor(File_Write(w1, o, contents).w, o)

SetW(w) ==
  /\ error_handler' = w.error_handler
  /\ proc' = w.proc
  /\ invoked' = w.invoked
  /\ cerr' = w.cerr
  /\ disk' = w.disk
  /\ streams' = w.streams
  /\ objs' = w.objs

----------------------------------------------------------------------------
(* logger.h: Logger, FileLogger, NoopLogger *)

npos == -1

\* std::string::find: the index (from 0) of the first occurrence of sub, or npos.
Find(s, sub) ==
  LET hits == {i \in 0..(Len(s) - Len(sub)) : SubSeq(s, i + 1, i + Len(sub)) = sub}
  IN IF hits = {} THEN npos ELSE CHOOSE i \in hits : \A j \in hits : i <= j

\* std::string::substr(pos): from index pos (from 0) to the end.
SubstrFrom(s, pos) == SubSeq(s, pos + 1, Len(s))

\* An argument of the variadic Print: an int or a string; operator<< streams it.
IntArg(i) == [t |-> "int", i |-> i, s |-> <<>>]
StrArg(s) == [t |-> "str", i |-> 0, s |-> s]
Streamed(value) == IF value.t = "int" THEN IntStr(value.i) ELSE value.s

Token == <<"{", "}">>

\* A formatter that stops at the last argument and drops the rest of the format.
RECURSIVE StrFormat_DropsTail(_, _, _)
StrFormat_DropsTail(oss, format, args) ==
  IF args = <<>> THEN oss
  ELSE LET pos == Find(format, Token)
       IN IF pos # npos
          THEN StrFormat_DropsTail(oss \o SubSeq(format, 1, pos) \o Streamed(Head(args)),
                                   SubstrFrom(format, pos + 2), Tail(args))
          ELSE oss \o format

\* Logger::StrFormat: with arguments left, the text before the first "{}" and
\* the first argument go to oss and the rest of the format is formatted with
\* the rest of the arguments; without a "{}", or without arguments, the format
\* goes to oss as it is.
RECURSIVE StrFormat(_, _, _)
StrFormat(oss, format, args) ==
  IF args = <<>> THEN oss \o format
  ELSE LET pos == Find(format, Token)
       IN IF pos # npos
          THEN StrFormat(oss \o SubSeq(format, 1, pos) \o Streamed(Head(args)),
                         SubstrFrom(format, pos + 2), Tail(args))
          ELSE oss \o format

\* Logger::Print(format, value, args...): the string handed to Print(string).
Logger_Format(format, args) == StrFormat(<<>>, format, args)

\* NoopLogger::Print(str)
NoopLogger_Print(w, str) == w

\* n in decimal, filled with '0' to width characters (setw, setfill('0')).
RECURSIVE Pad(_, _)
Pad(str, width) == IF Len(str) >= width THEN str ELSE Pad(<<"0">> \o str, width)

\* FileLogger::GetCurrentTime at the local time t: "%Y-%m-%d %H:%M:%S", a dot,
\* the milliseconds in three digits.
GetCurrentTime(t) ==
  Pad(NatStr(t.Y), 4) \o <<"-">> \o Pad(NatStr(t.M), 2) \o <<"-">> \o Pad(NatStr(t.D), 2)
  \o <<" ">> \o Pad(NatStr(t.h), 2) \o <<":">> \o Pad(NatStr(t.m), 2) \o <<":">>
  \o Pad(NatStr(t.s), 2) \o <<".">> \o Pad(NatStr(t.ms), 3)

\* A Print that leaves out the line end.
FileLogger_Print_NoNewline(w, o, str, t) ==
  File_Flush(File_Write(w, o, Bytes(<<"[">> \o GetCurrentTime(t) \o <<"]", " ">>
                                    \o str)).w, o).w

\* FileLogger::Print(str): fd_.Write("[" + time + "] " + str + "\n"); fd_.Flush();
FileLogger_Print(w, o, str, t) ==
  File_Flush(File_Write(w, o, Bytes(<<"[">> \o GetCurrentTime(t) \o <<"]", " ">>
                                    \o str \o <<"\n">>)).w, o).w

\* Logger::Print(format, value, args...) on a FileLogger.
FileLogger_PrintFormat(w, o, format, args, t) ==
  FileLogger_Print(w, o, Logger_Format(format, args), t)

StartedFormat == <<"{", "}", " ", "s", "t", "a", "r", "t", "e", "d">>
ClosingText ==
  <<"C", "l", "o", "s", "i", "n", "g", " ", "t", "h", "e", " ", "l", "o", "g", ".">>

\* path + "/log-" + name + ".txt"
LogFileName(path, name) ==
  path \o <<"/", "l", "o", "g", "-">> \o name \o <<".", "t", "x", "t">>

\* FileLogger(path, name, mode): the File member is opened (the process dies in
\* File's check when it cannot be), then Print("{} started", name).
FileLogger_ctor(w, o, path, name, mode, t) ==
  LET w1 == File_ctor(w, o, LogFileName(path, name), mode)
  IN IF w1.proc.st # "running" THEN w1
     ELSE FileLogger_PrintFormat(w1, o, StartedFormat, <<StrArg(name)>>, t)

\* ~FileLogger(): Print("Closing the log."); then the File member is destroyed.
FileLogger_dtor(w, o, t) ==
  File_dtor(FileLogger_Print(w, o, ClosingText, t), o)

----------------------------------------------------------------------------
(* A program that installs handlers and runs checks *)

MaxChecks == 2

SourceFiles == {<<"f">>}
SourceLines == {27}

\* Operand expressions: the text as written (#x_exp) and the value.
Exprs == {[lit |-> <<"2">>, val |-> 2], [lit |-> <<"n">>, val |-> 3],
          [lit |-> <<"m">>, val |-> -1]}

\* Conditions of the boolean checks: the text as written and the truth value.
Conds == {[lit |-> <<"o", "k">>, val |-> 1], [lit |-> <<"o", "k">>, val |-> 0]}

NoExpr == [lit |-> <<>>, val |-> 0]

FatalMessages == {<<"b", "a", "d">>}

\* The handler the program has made active: the latest installed, else the default.
ActiveHandler ==
  IF last_set = "none" THEN "SpielDefaultErrorHandler" ELSE last_set

SetRT(w) ==
  /\ error_handler' = w.error_handler
  /\ proc' = w.proc
  /\ invoked' = w.invoked
  /\ cerr' = w.cerr

\* What the program has observed of its checks: how many it executed, how many
\* of them were violated, and the latest one.  cont: the statement after the
\* check was reached; before, after: the runtime state the check started from
\* and the one it left.
CheckRecord(kind, x_exp, op, y_exp, holds, w2) ==
  [n |-> checks.n + 1,
   failed |-> checks.failed + (IF holds THEN 0 ELSE 1),
   last |-> [kind |-> kind, x |-> x_exp, op |-> op, y |-> y_exp, holds |-> holds,
             want |-> ActiveHandler, cont |-> w2.proc.st = "running",
             before |-> RT, after |-> w2]]

NoCheck == [kind |-> "NONE", x |-> NoExpr, op |-> <<>>, y |-> NoExpr, holds |-> TRUE,
            want |-> "SpielDefaultErrorHandler", cont |-> TRUE,
            before |-> [error_handler |-> "SpielDefaultErrorHandler",
                        proc |-> Running, invoked |-> <<>>, cerr |-> <<>>],
            after |-> [error_handler |-> "SpielDefaultErrorHandler",
                       proc |-> Running, invoked |-> <<>>, cerr |-> <<>>]]

SetErrorHandler(new_error_handler) ==
  /\ proc.st = "running"
  /\ error_handler' = new_error_handler
  /\ last_set' = new_error_handler
  /\ UNCHANGED <<proc, invoked, cerr, checks, fileVars, obs, dirVars>>

CheckOp ==
  /\ proc.st = "running"
  /\ checks.n < MaxChecks
  /\ \E file \in SourceFiles, line \in SourceLines, x_exp \in Exprs,
        op \in Ops, y_exp \in Exprs :
       LET w2 == SPIEL_CHECK_OP(RT, file, line, x_exp, op, y_exp)
       IN /\ SetRT(w2)
          /\ checks' = (CheckRecord("OP", x_exp, op, y_exp,
                           Compare(x_exp.val, op, y_exp.val), w2))
  /\ UNCHANGED <<last_set, fileVars, obs, dirVars>>

CheckTrue ==
  /\ proc.st = "running"
  /\ checks.n < MaxChecks
  /\ \E file \in SourceFiles, line \in SourceLines, x_exp \in Conds :
       LET w2 == SPIEL_CHECK_TRUE(RT, file, line, x_exp)
       IN /\ SetRT(w2)
          /\ checks' = (CheckRecord("TRUE", x_exp, <<>>, NoExpr, x_exp.val # 0, w2))
  /\ UNCHANGED <<last_set, fileVars, obs, dirVars>>

CheckFalse ==
  /\ proc.st = "running"
  /\ checks.n < MaxChecks
  /\ \E file \in SourceFiles, line \in SourceLines, x_exp \in Conds :
       LET w2 == SPIEL_CHECK_FALSE(RT, file, line, x_exp)
       IN /\ SetRT(w2)
          /\ checks' = (CheckRecord("FALSE", x_exp, <<>>, NoExpr, x_exp.val = 0, w2))
  /\ UNCHANGED <<last_set, fileVars, obs, dirVars>>

\* A direct call of SpielFatalError(message).
CallFatal ==
  /\ proc.st = "running"
  /\ checks.n < MaxChecks
  /\ \E m \in FatalMessages :
       LET w2 == SpielFatalError(RT, m)
       IN /\ SetRT(w2)
          /\ checks' = (CheckRecord("FATAL", [lit |-> m, val |-> 0], <<>>, NoExpr, FALSE, w2))
  /\ UNCHANGED <<last_set, fileVars, obs, dirVars>>

\* A handler's exception reaches a catch clause further up; the program goes on.
CatchError ==
  /\ proc.st = "unwinding"
  /\ proc' = Running
  /\ UNCHANGED <<error_handler, invoked, cerr, checks, last_set, fileVars, obs, dirVars>>

\* The runtime as the program starts.
RuntimeStart ==
  /\ error_handler = "SpielDefaultErrorHandler"
  /\ proc = Running
  /\ invoked = <<>>
  /\ cerr = <<>>
  /\ checks = [n |-> 0, failed |-> 0, last |-> NoCheck]
  /\ last_set = "none"

\* No file, no stream, no File object.
NoFiles ==
  /\ disk = <<>>
  /\ streams = <<>>
  /\ objs = <<>>

\* No directory tree, no Mkdirs call.
NoTree ==
  /\ tree = <<>>
  /\ denied = {}
  /\ mk = <<>>

InitFatal ==
  /\ RuntimeStart
  /\ NoTree
  /\ NoFiles
  /\ obs = <<>>

NextFatal ==
  \/ \E h \in Handlers : SetErrorHandler(h)
  \/ CheckOp
  \/ CheckTrue
  \/ CheckFalse
  \/ CallFatal
  \/ CatchError

SpecFatal == InitFatal /\ [][NextFatal]_vars

----------------------------------------------------------------------------
(* Claims about the fatal path *)

EqText == <<" ", "=", " ">>

\* The operands a check's message is about.
Operands(c) == IF c.kind = "OP" THEN {c.x, c.y} ELSE {c.x}

\* C2: SpielFatalError(message) never returns to its caller, whatever handler
\* is installed: the statement after a violated check (or after the call) is not
\* reached, the active handler was called once with the message, and when that
\* handler returns the process has exited with code 1 after the secondary
\* diagnostic "Error handler failure - exiting".
C2_FatalNeverReturns ==
  LET c == checks.last
      called == c.after.invoked IN
  (checks.n > 0 /\ ~c.holds) =>
    /\ ~c.cont
    /\ c.after.proc.st \in {"exited", "unwinding"}
    /\ called = Append(c.before.invoked, Last(called))
    /\ Last(called).h = c.before.error_handler
    /\ (c.kind = "FATAL" => Last(called).msg = c.x.lit)
    /\ (c.before.error_handler = "ReturningHandler" =>
          /\ c.after.proc = [st |-> "exited", code |-> 1]
          /\ c.after.cerr = c.before.cerr \o HandlerFailure
          /\ proc = c.after.proc)
    /\ (c.before.error_handler = "SpielDefaultErrorHandler" =>
          c.after.proc = [st |-> "exited", code |-> 1])
    /\ (c.after.proc.st = "exited" => RT = c.after)

\* C2 witness: a violated check ran under a handler that returns, and the
\* process has exited.
C2_Witness ==
  /\ checks.n > 0
  /\ ~checks.last.holds
  /\ checks.last.before.error_handler = "ReturningHandler"
  /\ proc.st = "exited"

----------------------------------------------------------------------------
(* A program that opens, moves and destroys File objects *)

MaxObjs == 3
MaxStreams == 2
MaxWrites == 1

OwnObjs == 1..MaxObjs
OwnNames == {<<"x">>, <<"n">>}
OwnModes == {"r", "w"}

Absent == [st |-> "absent", data |-> <<>>]
Present(data) == [st |-> "present", data |-> data]

Owners(fp) == {o \in DOMAIN objs : objs[o].st = "alive" /\ objs[o].fd_ = fp}

NoOp == [op |-> "none", o |-> 0, fd |-> NullFd,
         before |-> <<>>, after |-> <<>>]

InitOwn ==
  /\ RuntimeStart
  /\ NoTree
  /\ disk = [f \in OwnNames |-> IF f = <<"x">> THEN Present(Bytes(<<"a">>)) ELSE Absent]
  /\ streams = <<>>
  /\ objs = [o \in OwnObjs |-> NoObject]
  /\ obs = NoOp

\* File o(name, mode);
OwnOpen(o, name, mode) ==
  /\ proc.st = "running"
  /\ objs[o].st = "none"
  /\ Len(streams) < MaxStreams
  /\ SetW(File_ctor(W, o, name, mode))
  /\ obs' = [NoOp EXCEPT !.op = "File", !.o = o]
  /\ UNCHANGED <<checks, last_set, dirVars>>

\* File o(std::move(other));
OwnMoveConstruct(o, other) ==
  /\ proc.st = "running"
  /\ objs[o].st = "none"
  /\ objs[other].st = "alive"
  /\ SetW(File_move_ctor(W, o, other))
  /\ obs' = [NoOp EXCEPT !.op = "File&&", !.o = o, !.fd = objs[other].fd_]
  /\ UNCHANGED <<checks, last_set, dirVars>>

\* o = std::move(other);
OwnMoveAssign(o, other) ==
  /\ proc.st = "running"
  /\ objs[o].st = "alive"
  /\ objs[other].st = "alive"
  /\ \E outcome \in UBOutcomes : SetW(File_move_assign(W, o, other, outcome))
  /\ obs' = [NoOp EXCEPT !.op = "operator=", !.o = o, !.fd = objs[o].fd_]
  /\ UNCHANGED <<checks, last_set, dirVars>>

\* o goes out of scope.
OwnDestroy(o) ==
  /\ proc.st = "running"
  /\ objs[o].st = "alive"
  /\ LET w2 == File_dtor(W, o)
     IN /\ SetW(w2)
        /\ obs' = [op |-> "~File", o |-> o, fd |-> objs[o].fd_,
                   before |-> <<disk, streams>>, after |-> <<w2.disk, w2.streams>>]
  /\ UNCHANGED <<checks, last_set, dirVars>>

\* o.Write("b") on a File that holds a stream.
OwnWrite(o) ==
  /\ proc.st = "running"
  /\ objs[o].st = "alive"
  /\ objs[o].fd_ # NullFd
  /\ streams[objs[o].fd_].pos.lo < MaxWrites
  /\ SetW(File_Write(W, o, Bytes(<<"b">>)).w)
  /\ obs' = [NoOp EXCEPT !.op = "Write", !.o = o]
  /\ UNCHANGED <<checks, last_set, dirVars>>

\* o.Flush() on a File that holds a stream.
OwnFlush(o) ==
  /\ proc.st = "running"
  /\ objs[o].st = "alive"
  /\ objs[o].fd_ # NullFd
  /\ streams[objs[o].fd_].pend # <<>>
  /\ SetW(File_Flush(W, o).w)
  /\ obs' = [NoOp EXCEPT !.op = "Flush", !.o = o]
  /\ UNCHANGED <<checks, last_set, dirVars>>

NextOwn ==
  \/ \E o \in OwnObjs, name \in OwnNames, mode \in OwnModes : OwnOpen(o, name, mode)
  \/ \E o \in OwnObjs, other \in OwnObjs : OwnMoveConstruct(o, other)
  \/ \E o \in OwnObjs, other \in OwnObjs : OwnMoveAssign(o, other)
  \/ \E o \in OwnObjs : OwnDestroy(o)
  \/ \E o \in OwnObjs : OwnWrite(o)
  \/ \E o \in OwnObjs : OwnFlush(o)

SpecOwn == InitOwn /\ [][NextOwn]_vars

\* The tail of a stream's events when a destructor flushed and closed it.
ClosedByDestructor(fp) ==
  /\ streams[fp].st = "closed"
  /\ Len(streams[fp].ev) >= 3
  /\ SubSeq(streams[fp].ev, Len(streams[fp].ev) - 2, Len(streams[fp].ev))
       = <<"~File", "fflush", "fclose">>
  /\ Cardinality({i \in 1..Len(streams[fp].ev) : streams[fp].ev[i] = "fclose"}) = 1

\* C1: over any sequence of opens, move constructions, move assignments (onto a
\* vacated or a still-open File) and destructions, at most one File owns a given
\* open stream; every stream that was opened and has no owner left was flushed
\* and then closed exactly once, by a destructor; a moved-from File's destructor
\* flushes and closes nothing.
C1_OneOwnerFlushedThenClosedOnce ==
  proc.st = "running" =>
    /\ \A fp \in 1..Len(streams) :
         /\ Cardinality(Owners(fp)) <= 1
         /\ (streams[fp].st = "open") = (Cardinality(Owners(fp)) = 1)
         /\ (Owners(fp) = {}) => ClosedByDestructor(fp)
    /\ (obs.op = "~File" /\ obs.fd = NullFd) => obs.after = obs.before

\* The part of C1 that holds also when a File is assigned to while it is open.
OwnershipIsExclusive ==
  proc.st = "running" =>
    /\ \A fp \in 1..Len(streams) :
         /\ Cardinality(Owners(fp)) <= 1
         /\ (Owners(fp) = {}) => (ClosedByDestructor(fp) \/ streams[fp].st = "freed")
         /\ (streams[fp].st = "freed") =>
              ~ \E i \in 1..Len(streams[fp].ev) : streams[fp].ev[i] = "fclose"
    /\ (obs.op = "~File" /\ obs.fd = NullFd) => obs.after = obs.before

----------------------------------------------------------------------------
(* A program that reads, writes and measures one File *)

MaxIoOps == 3

IoName == <<"x">>
IoModes == {"r", "w", "a"}
IoFiles == {Absent, Present(Bytes(<<"a", "b", "c">>))}
IoStrings == {<<>>, Bytes(<<"d">>), Bytes(<<"e", "f">>), Fill("z", [hi |-> 2, lo |-> 0])}
IoOffsets == {N(0), N(1), N(5), [hi |-> -1, lo |-> B30 - 1]}
IoCounts == {N(0), N(2), N(9)}

\* n: calls so far; fresh: the stream was opened on an empty file and only
\* written to since; written: the bytes those writes were given.
IoObs(op, ret, w1, w2, fresh, written) ==
  [op |-> op, ret |-> ret, n |-> obs.n + 1,
   tell0 |-> File_Tell(w1, 1), tell1 |-> File_Tell(w2, 1),
   fresh |-> fresh, written |-> written]

InitIo ==
  /\ RuntimeStart
  /\ NoTree
  /\ \E f \in IoFiles : disk = [name \in {IoName} |-> f]
  /\ streams = <<>>
  /\ objs = [o \in {1} |-> NoObject]
  /\ obs = [op |-> "none", ret |-> N(0), n |-> 0, tell0 |-> N(0), tell1 |-> N(0),
            fresh |-> FALSE, written |-> N(0)]

IoOpen(mode) ==
  /\ proc.st = "running"
  /\ objs[1].st = "none"
  /\ LET w2 == File_ctor(W, 1, IoName, mode)
     IN /\ SetW(w2)
        /\ obs' = [obs EXCEPT !.op = "File",
                     !.fresh = /\ w2.proc.st = "running"
                               /\ mode # "r"
                               /\ w2.disk[IoName].data = <<>>]
  /\ UNCHANGED <<checks, last_set, dirVars>>

IoReady ==
  /\ proc.st = "running"
  /\ objs[1].st = "alive"
  /\ obs.n < MaxIoOps

IoWrite(str) ==
  /\ IoReady
  /\ LET r == File_Write(W, 1, str)
     IN /\ SetW(r.w)
        /\ obs' = IoObs("Write", IF r.ret THEN N(1) ELSE N(0), W, r.w, obs.fresh,
                        IF r.ret THEN BAdd(obs.written, CLen(str)) ELSE obs.written)
  /\ UNCHANGED <<checks, last_set, dirVars>>

IoSeek(offset) ==
  /\ IoReady
  /\ LET r == File_Seek(W, 1, offset)
     IN /\ SetW(r.w)
        /\ obs' = IoObs("Seek", IF r.ret THEN N(1) ELSE N(0), W, r.w, FALSE, obs.written)
  /\ UNCHANGED <<checks, last_set, dirVars>>

IoRead(count) ==
  /\ IoReady
  /\ LET r == File_Read(W, 1, count)
     IN /\ SetW(r.w)
        /\ obs' = IoObs("Read", CLen(r.ret), W, r.w, FALSE, obs.written)
  /\ UNCHANGED <<checks, last_set, dirVars>>

IoFlush ==
  /\ IoReady
  /\ LET r == File_Flush(W, 1)
     IN /\ SetW(r.w)
        /\ obs' = IoObs("Flush", IF r.ret THEN N(1) ELSE N(0), W, r.w, obs.fresh, obs.written)
  /\ UNCHANGED <<checks, last_set, dirVars>>

IoLength ==
  /\ IoReady
  /\ LET r == File_Length(W, 1)
     IN /\ SetW(r.w)
        /\ obs' = IoObs("Length", r.ret, W, r.w, obs.fresh, obs.written)
  /\ UNCHANGED <<checks, last_set, dirVars>>

NextIo ==
  \/ \E mode \in IoModes : IoOpen(mode)
  \/ \E str \in IoStrings : IoWrite(str)
  \/ \E offset \in IoOffsets : IoSeek(offset)
  \/ \E count \in IoCounts : IoRead(count)
  \/ IoFlush
  \/ IoLength

SpecIo == InitIo /\ [][NextIo]_vars

\* C9: Length() returns the total size of the file and leaves the offset where
\* it was: Tell() is the same before and after the call, whatever the offset,
\* and on a fresh file that was only written to Length() is the number of bytes
\* written.
C9_LengthKeepsOffset ==
  obs.op = "Length" =>
    /\ obs.tell1 = obs.tell0
    /\ File_Tell(W, 1) = obs.tell0
    /\ obs.ret = CLen(disk[IoName].data)
    /\ obs.fresh => obs.ret = obs.written

\* C9 witness: Length() was called on a fresh file that had bytes written to
\* it, at a non-zero offset.
C9_Witness ==
  /\ obs.op = "Length"
  /\ obs.fresh
  /\ BLt(N(0), obs.written)
  /\ obs.ret = obs.written
  /\ BLt(N(0), obs.tell0)

\* Length() was called at an offset inside the file.
LengthMidFile ==
  /\ obs.op = "Length"
  /\ BLt(obs.tell1, obs.ret)
  /\ BLt(N(0), obs.tell1)

----------------------------------------------------------------------------
(* A program that writes a string to a file and reads the file back *)

MaxRuns == 2

RtName == <<"x">>

\* Sizes on both sides of 2^31 and of 2^32.
RtSizes == {N(1), N(2), [hi |-> 1, lo |-> B30 - 1], [hi |-> 2, lo |-> 0],
            [hi |-> 4, lo |-> 0], [hi |-> 4, lo |-> 1]}

RtRuns == [b : {"a", "b"}, n : RtSizes]

\* The byte sequences of at most MaxRuns runs.
RtInputs ==
  {c \in UNION {[1..k -> RtRuns] : k \in 0..MaxRuns} :
     \A i \in 1..(Len(c) - 1) : c[i].b # c[i + 1].b}

RtFiles == {Absent, Present(Bytes(<<"q">>))}

InitRt ==
  /\ RuntimeStart
  /\ NoTree
  /\ \E f \in RtFiles : disk = [name \in {RtName} |-> f]
  /\ streams = <<>>
  /\ objs = [o \in {1} |-> NoObject]
  /\ \E s \in RtInputs : obs = [pc |-> "start", s |-> s, ret |-> <<>>]

\* WriteContentsToFile(name, "w", s);
RtWrite ==
  /\ proc.st = "running"
  /\ obs.pc = "start"
  /\ SetW(WriteContentsToFile(W, 1, RtName, "w", obs.s))
  /\ obs' = [obs EXCEPT !.pc = "written"]
  /\ UNCHANGED <<checks, last_set, dirVars>>

\* ret = ReadContentsFromFile(name, "r");
RtRead ==
  /\ proc.st = "running"
  /\ obs.pc = "written"
  /\ LET r == ReadContentsFromFile(W, 1, RtName, "r")
     IN /\ SetW(r.w)
        /\ obs' = [obs EXCEPT !.pc = "read", !.ret = r.ret]
  /\ UNCHANGED <<checks, last_set, dirVars>>

NextRt ==
  \/ RtWrite
  \/ RtRead

SpecRt == InitRt /\ [][NextRt]_vars

\* C8: for every byte sequence s, writing s to a file in truncate-write mode
\* and then reading the whole file returns exactly s.
C8_RoundTrip ==
  obs.pc = "read" => (proc.st = "running" /\ obs.ret = obs.s)

\* The file itself always holds s after the write, and the round trip returns s
\* for every s shorter than 2^31 bytes.
RoundTripBelow2G ==
  /\ obs.pc \in {"written", "read"} => disk[RtName] = Present(obs.s)
  /\ (obs.pc = "read" /\ BLt(CLen(obs.s), [hi |-> 2, lo |-> 0])) =>
       (proc.st = "running" /\ obs.ret = obs.s)

----------------------------------------------------------------------------
(* A program that formats through Logger::Print(format, value, args...) *)

MaxFmtLen == 4
MaxArgs == 2

FmtChars == {"{", "}", "a"}
Formats == UNION {[1..k -> FmtChars] : k \in 0..MaxFmtLen}
FmtValues == {IntArg(1), IntArg(-12), StrArg(<<"{", "}">>), StrArg(<<>>)}
ArgLists == UNION {[1..k -> FmtValues] : k \in 1..MaxArgs}

InitFormat ==
  /\ RuntimeStart
  /\ NoTree
  /\ NoFiles
  /\ \E format \in Formats, args \in ArgLists :
       obs = [pc |-> "start", format |-> format, args |-> args, passed |-> <<>>]

\* NoopLogger logger; logger.Print(format, args...);  passed is the string the
\* template hands to Print(string).
FormatPrint ==
  /\ proc.st = "running"
  /\ obs.pc = "start"
  /\ SetW(NoopLogger_Print(W, Logger_Format(obs.format, obs.args)))
  /\ obs' = [obs EXCEPT !.pc = "printed",
                        !.passed = Logger_Format(obs.format, obs.args)]
  /\ UNCHANGED <<checks, last_set, dirVars>>

NextFormat == FormatPrint

SpecFormat == InitFormat /\ [][NextFormat]_vars

\* The tokens of a format: every index where "{" is followed by "}" (two
\* tokens cannot overlap).  The k-th token from the left has rank k.
IsToken(format, i) ==
  i < Len(format) /\ format[i] = "{" /\ format[i + 1] = "}"
Rank(format, i) == Cardinality({j \in 1..i : IsToken(format, j)})
Replaced(format, args, i) ==
  i >= 1 /\ IsToken(format, i) /\ Rank(format, i) <= Len(args)

RECURSIVE Substituted(_, _, _)
Substituted(format, args, i) ==
  IF i > Len(format) THEN <<>>
  ELSE (IF Replaced(format, args, i) THEN Streamed(args[Rank(format, i)])
        ELSE IF Replaced(format, args, i - 1) THEN <<>>
        ELSE <<format[i]>>)
       \o Substituted(format, args, i + 1)

Str_1_plus_1_is_2 ==
  <<"{", "}", " ", "p", "l", "u", "s", " ", "{", "}", " ", "i", "s", " ", "{", "}">>

\* C4: Print(format, args...) hands to Print(string) the format with its k-th
\* "{}" token replaced by the string form of the k-th argument; tokens beyond
\* the arguments stay as "{}" and arguments beyond the tokens are dropped.
C4_Substitution ==
  /\ obs.pc = "printed" => obs.passed = Substituted(obs.format, obs.args, 1)
  /\ Logger_Format(Str_1_plus_1_is_2, <<IntArg(1), IntArg(1), IntArg(2)>>)
       = <<"1", " ", "p", "l", "u", "s", " ", "1", " ", "i", "s", " ", "2">>
  /\ Logger_Format(<<"{", "}", " ", "{", "}">>, <<IntArg(1)>>) = <<"1", " ", "{", "}">>
  /\ Logger_Format(<<"{", "}">>, <<IntArg(1), IntArg(2)>>) = <<"1">>

\* More tokens than arguments: the second token stays.
C4_Witness ==
  /\ obs.pc = "printed"
  /\ obs.format = <<"{", "}", "{", "}">>
  /\ obs.args = <<IntArg(1)>>
  /\ obs.passed = <<"1", "{", "}">>

\* Fewer tokens than arguments: the second argument is dropped.
SurplusArgumentDropped ==
  /\ obs.pc = "printed"
  /\ obs.format = <<"a", "{", "}">>
  /\ obs.args = <<IntArg(-12), IntArg(1)>>
  /\ obs.passed = <<"a", "-", "1", "2">>

----------------------------------------------------------------------------
(* A program that constructs a FileLogger, prints and destroys it *)

MaxPrints == 2

LogPaths == {<<"d">>}
LogNames == {<<"n">>, <<"{", "}">>}
LogModes == {"w", "a", "r"}
LogTexts == {<<"h", "i">>, <<"a", "\n", "b">>, <<>>}
LogFormats == {<<"{", "}", "!">>}
LogArgLists == {<<IntArg(7)>>}
Times == {[Y |-> 2026, M |-> 1, D |-> 2, h |-> 3, m |-> 4, s |-> 5, ms |-> 6],
          [Y |-> 2026, M |-> 11, D |-> 30, h |-> 23, m |-> 59, s |-> 59, ms |-> 999]}

\* The log file before the program runs: absent, present with a line in it, or
\* in a directory that does not exist.
LogFiles == {Absent, Present(Bytes(<<"o", "\n">>)), [st |-> "denied", data |-> <<>>]}

InitLogger ==
  /\ RuntimeStart
  /\ NoTree
  /\ \E f \in LogFiles :
       disk = [file \in {LogFileName(path, name) : path \in LogPaths, name \in LogNames}
               |-> f]
  /\ streams = <<>>
  /\ objs = [o \in {1} |-> NoObject]
  /\ obs = [st |-> "none", file |-> <<>>, name |-> <<>>, mode |-> "w",
            base |-> <<>>, disk0 |-> disk, recs |-> <<>>]

\* FileLogger logger(path, name, mode);
LogConstruct(path, name, mode, t) ==
  /\ proc.st = "running"
  /\ obs.st = "none"
  /\ LET w2 == FileLogger_ctor(W, 1, path, name, mode, t)
         file == LogFileName(path, name)
     IN /\ SetW(w2)
        /\ obs' = [obs EXCEPT
                     !.st = IF w2.proc.st = "running" THEN "active" ELSE "failed",
                     !.file = file, !.name = name, !.mode = mode,
                     !.base = IF mode = "w" THEN <<>> ELSE disk[file].data,
                     !.recs = IF w2.proc.st = "running"
                              THEN <<[t |-> t, text |-> name \o <<" ", "s", "t", "a", "r", "t", "e", "d">>]>>
                              ELSE <<>>]
  /\ UNCHANGED <<checks, last_set, dirVars>>

\* logger.Print(str);
LogPrint(str, t) ==
  /\ proc.st = "running"
  /\ obs.st = "active"
  /\ Len(obs.recs) <= MaxPrints
  /\ SetW(FileLogger_Print(W, 1, str, t))
  /\ obs' = [obs EXCEPT !.recs = Append(@, [t |-> t, text |-> str])]
  /\ UNCHANGED <<checks, last_set, dirVars>>

\* logger.Print(format, args...);
LogPrintFormat(format, args, t) ==
  /\ proc.st = "running"
  /\ obs.st = "active"
  /\ Len(obs.recs) <= MaxPrints
  /\ SetW(FileLogger_PrintFormat(W, 1, format, args, t))
  /\ obs' = [obs EXCEPT !.recs = Append(@, [t |-> t, text |-> Substituted(format, args, 1)])]
  /\ UNCHANGED <<checks, last_set, dirVars>>

\* The logger goes out of scope.
LogDestroy(t) ==
  /\ proc.st = "running"
  /\ obs.st = "active"
  /\ SetW(FileLogger_dtor(W, 1, t))
  /\ obs' = [obs EXCEPT !.st = "closed",
                        !.recs = Append(@, [t |-> t, text |-> ClosingText])]
  /\ UNCHANGED <<checks, last_set, dirVars>>

NextLogger ==
  \/ \E path \in LogPaths, name \in LogNames, mode \in LogModes, t \in Times :
       LogConstruct(path, name, mode, t)
  \/ \E str \in LogTexts, t \in Times : LogPrint(str, t)
  \/ \E format \in LogFormats, args \in LogArgLists, t \in Times :
       LogPrintFormat(format, args, t)
  \/ \E t \in Times : LogDestroy(t)

SpecLogger == InitLogger /\ [][NextLogger]_vars

\* The bytes of a short content, one by one.
RECURSIVE Unpack(_)
Unpack(c) ==
  IF c = <<>> THEN <<>>
  ELSE IF Len(c) = 1 THEN [i \in 1..c[1].n.lo |-> c[1].b]
  ELSE LET h == Len(c) \div 2
       IN Unpack(SubSeq(c, 1, h)) \o Unpack(SubSeq(c, h + 1, Len(c)))

\* The lines of a text: each ends at a line feed, the last possibly without one.
RECURSIVE Lines(_)
Lines(text) ==
  IF text = <<>> THEN <<>>
  ELSE LET p == Find(text, <<"\n">>)
       IN IF p = npos THEN <<text>>
          ELSE <<SubSeq(text, 1, p)>> \o Lines(SubstrFrom(text, p + 1))

\* What the logger appended to its file: the file without what it held when
\* the logger opened it.
Appended == Unpack(CDrop(disk[obs.file].data, CLen(obs.base)))

LogLine(rec) == <<"[">> \o GetCurrentTime(rec.t) \o <<"]", " ">> \o rec.text

RECURSIVE LogRecords(_)
LogRecords(recs) ==
  IF recs = <<>> THEN <<>>
  ELSE LogLine(Head(recs)) \o <<"\n">> \o LogRecords(Tail(recs))

\* C5 as stated: the lines appended are the start line, one line per Print
\* call in call order and, once destroyed, the closing line.
C5_Original ==
  obs.st \in {"active", "closed"} =>
    /\ Len(Lines(Appended)) = Len(obs.recs)
    /\ \A i \in 1..Len(obs.recs) : Lines(Appended)[i] = LogLine(obs.recs[i])

\* C5: a logger on a stream that can be written appends exactly the records
\* "[time] <name> started", "[time] <text>" per Print call in call order and,
\* on destruction, "[time] Closing the log." last, each followed by one line
\* feed; the records are one line each when no text holds a line feed.  A
\* logger opened for reading appends nothing.  Nothing is written before
\* construction, what the file held before an appending logger stays, and the
\* destroyed logger's stream is closed.
C5_RecordsInOrder ==
  /\ obs.st \in {"none", "failed"} => disk = obs.disk0
  /\ obs.st \in {"active", "closed"} =>
       /\ CTake(disk[obs.file].data, CLen(obs.base)) = obs.base
       /\ Appended = IF obs.mode = "r" THEN <<>> ELSE LogRecords(obs.recs)
       /\ (obs.mode # "r" /\ \A i \in 1..Len(obs.recs) : ~Contains(obs.recs[i].text, <<"\n">>))
            => /\ Len(Lines(Appended)) = Len(obs.recs)
               /\ \A i \in 1..Len(obs.recs) : Lines(Appended)[i] = LogLine(obs.recs[i])
       /\ obs.recs[1].text = obs.name \o <<" ", "s", "t", "a", "r", "t", "e", "d">>
  /\ obs.st = "active" => streams[objs[1].fd_].st = "open"
  /\ obs.st = "closed" =>
       /\ Last(obs.recs).text = ClosingText
       /\ \A fp \in DOMAIN streams : streams[fp].st = "closed"
       /\ objs[1] = [st |-> "dead", fd_ |-> NullFd]

\* An appending logger on a file with a line in it, two Print calls, destroyed.
C5_Witness ==
  /\ obs.st = "closed"
  /\ obs.mode = "a"
  /\ obs.base # <<>>
  /\ Len(obs.recs) = MaxPrints + 2
  /\ Len(Lines(Appended)) = Len(obs.recs)

\* A Print of a text with a line feed in it leaves more lines than calls.
MoreLinesThanCalls ==
  /\ obs.st = "closed"
  /\ obs.mode = "w"
  /\ Len(Lines(Appended)) > Len(obs.recs)

----------------------------------------------------------------------------
(* The directory tree file.h works on, as stat(2) and mkdir(2) of a POSIX   *)
(* system see it: "/" separates names, "\" is a character of a name.        *)

\* The file type bits of st_mode (sys/stat.h).
S_IFMT == 15 * 4096
S_IFDIR == 4 * 4096
S_IFREG == 8 * 4096
S_IFBLK == 6 * 4096
S_IFSOCK == 12 * 4096

\* 0755 and 0644
Mode0755 == (7 * 64) + (5 * 8) + 5
Mode0644 == (6 * 64) + (4 * 8) + 4

\* mode & mask for a mask of one bit.
BitAnd(mode, mask) == ((mode \div mask) % 2) * mask

\* S_ISDIR(mode): (mode & S_IFMT) == S_IFDIR
S_ISDIR(mode) == ((mode \div 4096) % 16) * 4096 = S_IFDIR

Root == <<>>
Cwd == <<<<"w">>>>

\* The names of a path: the pieces between its slashes, empty pieces left
\* out.  A name starts after a slash (or at the start of the path) and ends
\* before the next slash (or at the end of the path).
NameStarts(path) ==
  {i \in 1..Len(path) : path[i] # "/" /\ (i = 1 \/ path[i - 1] = "/")}
NameEnd(path, i) ==
  CHOOSE j \in i..Len(path) :
    /\ \A k \in i..j : path[k] # "/"
    /\ j = Len(path) \/ path[j + 1] = "/"
Names(path) ==
  [n \in 1..Cardinality(NameStarts(path)) |->
     LET i == CHOOSE x \in NameStarts(path) :
                Cardinality({y \in NameStarts(path) : y <= x}) = n
     IN SubSeq(path, i, NameEnd(path, i))]

\* The entry a non-empty path names: from the root when it starts with a
\* slash, else from the working directory.
Key(path) == (IF path[1] = "/" THEN Root ELSE Cwd) \o Names(path)

Parent(k) == SubSeq(k, 1, Len(k) - 1)

\* stat(path, &info): 0 and the mode, or -1: the empty path, an entry that is
\* not there, a trailing slash after something that is not a directory.
stat(t, path) ==
  IF path = <<>> THEN [ret |-> -1, st_mode |-> 0]
  ELSE LET k == Key(path)
       IN IF k \notin DOMAIN t THEN [ret |-> -1, st_mode |-> 0]
          ELSE IF Last(path) = "/" /\ ~S_ISDIR(t[k]) THEN [ret |-> -1, st_mode |-> 0]
          ELSE [ret |-> 0, st_mode |-> t[k]]

\* mkdir(path, mode): 0 and the new directory, or -1: the empty path, an
\* entry that is there already, a parent that is missing, is not a directory
\* or does not permit the creation.
mkdir(t, den, path, mode) ==
  IF path = <<>> THEN [t |-> t, ret |-> -1]
  ELSE LET k == Key(path)
           ok == /\ k \notin DOMAIN t
                 /\ k # Root
                 /\ Parent(k) \in DOMAIN t
                 /\ S_ISDIR(t[Parent(k)])
                 /\ Parent(k) \notin den
       IN IF ok
          THEN [t |-> [x \in DOMAIN t \cup {k} |-> IF x = k THEN S_IFDIR + mode ELSE t[x]],
                ret |-> 0]
          ELSE [t |-> t, ret |-> -1]

----------------------------------------------------------------------------
(* file.h: Exists, IsDirectory, Mkdir, Mkdirs *)

Exists(t, path) == stat(t, path).ret = 0

IsDirectory(t, path) ==
  LET info == stat(t, path)
  IN info.ret = 0 /\ BitAnd(info.st_mode, S_IFDIR) # 0

\* bool Mkdir(path, mode): [t, ret]
Mkdir(t, den, path, mode) ==
  LET r == mkdir(t, den, path, mode) IN [t |-> r.t, ret |-> r.ret = 0]

\* A search that starts at pos instead of pos + 1.
find_first_of_NoAdvance(s, chars, from) ==
  LET hits == {i \in (from - 1)..(Len(s) - 1) : i >= 0 /\ s[i + 1] \in chars}
  IN IF hits = {} THEN npos ELSE CHOOSE i \in hits : \A j \in hits : i <= j

\* std::string::find_first_of(chars, from): the first index (from 0) at or
\* after from that holds one of chars, or npos.
find_first_of(s, chars, from) ==
  LET hits == {i \in from..(Len(s) - 1) : s[i + 1] \in chars}
  IN IF hits = {} THEN npos ELSE CHOOSE i \in hits : \A j \in hits : i <= j

\* std::string::substr(0, pos)
substr0(s, pos) == IF pos = npos \/ pos > Len(s) THEN s ELSE SubSeq(s, 1, pos)

Separators == {"\\", "/"}

----------------------------------------------------------------------------
(* A program that calls Mkdirs(path), and calls it again *)

MaxPathLen == 4
MaxCalls == 2

PathChars == {"a", "/", "\\"}
Paths == UNION {[1..k -> PathChars] : k \in 0..MaxPathLen}

\* The entries a tree may hold before the program runs, parents first.
A1 == Cwd \o <<<<"a">>>>
A2 == A1 \o <<<<"a">>>>
R1 == Root \o <<<<"a">>>>
Dir == S_IFDIR + Mode0755
NonDirs == {S_IFREG + Mode0644, S_IFSOCK + Mode0755, S_IFBLK + Mode0644}
Base == [k \in {Root, Cwd} |-> Dir]
With(t, k, m) == [x \in DOMAIN t \cup {k} |-> IF x = k THEN m ELSE t[x]]
Trees ==
  {Base, With(Base, R1, Dir), With(With(Base, A1, Dir), A2, Dir)}
  \cup {With(Base, A1, m) : m \in NonDirs \cup {Dir}}
  \cup {With(With(Base, A1, Dir), A2, m) : m \in NonDirs}
  \cup {With(Base, R1, m) : m \in NonDirs}
Denials == {{}, {Cwd}, {A1}, {Root}}

NoCall == [ret |-> FALSE, tree0 |-> <<>>, created |-> <<>>, tried |-> <<>>]

InitMkdirs ==
  /\ RuntimeStart
  /\ NoFiles
  /\ obs = <<>>
  /\ tree \in Trees
  /\ denied \in Denials
  /\ mk = [pc |-> "idle", path |-> <<>>, pos |-> 0, n |-> 0, ret |-> FALSE,
           tree0 |-> tree, created |-> <<>>, tried |-> <<>>, failed |-> FALSE,
           prev |-> NoCall]

\* Mkdirs(path) is called: pos = 0, the loop test is next.  The program
\* passes the same path in each of its calls.
MkdirsCall(path) ==
  /\ proc.st = "running"
  /\ mk.pc \in {"idle", "done"}
  /\ mk.n < MaxCalls
  /\ mk.n > 0 => path = mk.path
  /\ mk' = [mk EXCEPT !.pc = "loop", !.path = path, !.pos = 0, !.n = @ + 1,
                      !.ret = FALSE,
                      !.tree0 = tree, !.created = <<>>, !.tried = <<>>,
                      !.failed = FALSE,
                      !.prev = IF mk.pc = "idle" THEN NoCall
                               ELSE [ret |-> mk.ret, tree0 |-> mk.tree0,
                                     created |-> mk.created, tried |-> mk.tried]]
  /\ UNCHANGED <<fatalVars, fileVars, tree, denied, obs>>

\* The end of one pass through the loop body that looked at sub_path: the
\* tree it leaves, the new pos, whether Mkdir was called, and whether the
\* pass goes back to the loop test ("continue") or returns false ("false").
MkdirsPassEnds(t, pos, sub_path, tried, go) ==
  /\ tree' = t
  /\ mk' = [mk EXCEPT
              !.pc = IF go = "false" THEN "done" ELSE "loop",
              !.ret = FALSE,
              !.pos = pos,
              !.tried = IF tried THEN Append(@, sub_path) ELSE @,
              !.created = IF tried /\ go = "continue" THEN Append(@, sub_path) ELSE @,
              !.failed = tried /\ go = "false"]

\* A loop body that takes an existing directory for an error.
MkdirsBody_NotIdempotent(path, mode, pos0) ==
  \E pos \in {find_first_of(path, Separators, pos0 + 1)} :
  \E sub_path \in {substr0(path, pos)} :
  \E info \in {stat(tree, sub_path)} :
    IF info.ret = 0
    THEN MkdirsPassEnds(tree, pos, sub_path, FALSE, "false")
    ELSE \E made \in {Mkdir(tree, denied, sub_path, mode)} :
           MkdirsPassEnds(made.t, pos, sub_path, TRUE,
                          IF made.ret THEN "continue" ELSE "false")

\* The body of the loop of Mkdirs, entered with pos = pos0:
\*   pos = path.find_first_of("\\/", pos + 1); sub_path = path.substr(0, pos);
\*   if (stat(sub_path, &info) == 0) { if (info.st_mode & S_IFDIR) continue;
\*                                     else return false; }
\*   if (!Mkdir(sub_path, mode)) return false;
\* The locals are bound once, in the order the code computes them.
MkdirsBody(path, mode, pos0) ==
  \E pos \in {find_first_of(path, Separators, pos0 + 1)} :
  \E sub_path \in {substr0(path, pos)} :
  \E info \in {stat(tree, sub_path)} :
    IF info.ret = 0
    THEN MkdirsPassEnds(tree, pos, sub_path, FALSE,
                        IF BitAnd(info.st_mode, S_IFDIR) # 0 THEN "continue" ELSE "false")
    ELSE \E made \in {Mkdir(tree, denied, sub_path, mode)} :
           MkdirsPassEnds(made.t, pos, sub_path, TRUE,
                          IF made.ret THEN "continue" ELSE "false")

\* The loop test `pos != npos` and, when it holds, one pass through the body;
\* `return true` when it does not.
MkdirsStep ==
  /\ proc.st = "running"
  /\ mk.pc = "loop"
  /\ IF mk.pos = npos
     THEN /\ mk' = [mk EXCEPT !.pc = "done", !.ret = TRUE]
          /\ tree' = tree
     ELSE MkdirsBody(mk.path, Mode0755, mk.pos)
  /\ UNCHANGED <<fatalVars, fileVars, denied, obs>>

NextMkdirs ==
  \/ \E path \in Paths : MkdirsCall(path)
  \/ MkdirsStep

SpecMkdirs == InitMkdirs /\ [][NextMkdirs]_vars

\* The program that calls Mkdirs(path) once and keeps running: a call that
\* has begun goes on with its next pass for as long as there is one.
NextMkdirsOnce ==
  \/ \E path \in Paths : mk.n = 0 /\ MkdirsCall(path)
  \/ MkdirsStep

SpecMkdirsFair == InitMkdirs /\ [][NextMkdirsOnce]_vars /\ WF_vars(MkdirsStep)

\* The levels of a path: its prefixes that end just before a separator at an
\* index of 1 or more, and the path itself.
Levels(path) ==
  {SubSeq(path, 1, i) : i \in {j \in 1..(Len(path) - 1) : path[j + 1] \in {"/", "\\"}}}
  \cup {path}

\* Whether path names a directory of the tree t.
IsDir(t, path) == stat(t, path).ret = 0 /\ S_ISDIR(stat(t, path).st_mode)

\* Whether path names an entry of t that is not a directory.
IsNonDir(t, path) == stat(t, path).ret = 0 /\ ~S_ISDIR(stat(t, path).st_mode)

\* None of the levels of path exists in t.
NoLevelExists(t, path) == \A p \in Levels(path) : stat(t, p).ret # 0

\* Every creation is permitted: each level names an entry that can be made,
\* in a directory that does not refuse it.
EveryCreationPermitted(path) ==
  \A p \in Levels(path) : p # <<>> /\ Key(p) # Root /\ Parent(Key(p)) \notin denied

\* C6: on a tree where no level of path exists and every creation is
\* permitted, Mkdirs(path) returns true and every level is a directory
\* afterwards; a second Mkdirs(path) returns true, makes no attempt to create
\* anything and leaves the tree as it was.
C6_CreatesAllLevelsIdempotent ==
  /\ (mk.n = 1 /\ mk.pc = "done" /\ NoLevelExists(mk.tree0, mk.path)
      /\ EveryCreationPermitted(mk.path))
       => /\ mk.ret
          /\ \A p \in Levels(mk.path) : IsDir(tree, p)
  /\ (mk.n = 2 /\ NoLevelExists(mk.prev.tree0, mk.path)
      /\ EveryCreationPermitted(mk.path))
       => /\ mk.prev.ret
          /\ tree = mk.tree0
          /\ mk.tried = <<>>
          /\ mk.pc = "done" => mk.ret

\* Two levels were created by the first call, the third level is the second
\* with a slash after it; the second call is over.
C6_Witness ==
  /\ mk.n = 2
  /\ mk.pc = "done"
  /\ mk.ret
  /\ NoLevelExists(mk.prev.tree0, mk.path)
  /\ EveryCreationPermitted(mk.path)
  /\ mk.path = <<"a", "/", "a", "/">>
  /\ mk.prev.created = <<<<"a">>, <<"a", "/", "a">>>>

\* C7 as stated: when a level of path exists as something that is not a
\* directory, or a creation fails, Mkdirs returns false without invoking the
\* error handler, attempts no creation for a longer prefix, and every
\* directory it created is still there.
C7_FailureReturnsFalse ==
  mk.pc = "done" =>
    LET bad == {p \in Levels(mk.path) : IsNonDir(mk.tree0, p)}
    IN /\ (bad # {} \/ mk.failed) => (~mk.ret /\ proc = Running /\ invoked = <<>>)
       /\ \A p \in bad : \A i \in 1..Len(mk.tried) : Len(mk.tried[i]) < Len(p)
       /\ \A i \in 1..Len(mk.created) : IsDir(tree, mk.created[i])

\* What holds of failure: false is returned, without the error handler, when
\* a creation fails or a level is an entry without the S_IFDIR bit in its
\* mode (a regular file); what the call created stays.
MkdirsFailsOnRegularFile ==
  mk.pc = "done" =>
    LET bad == {p \in Levels(mk.path) :
                  stat(mk.tree0, p).ret = 0
                  /\ BitAnd(stat(mk.tree0, p).st_mode, S_IFDIR) = 0}
    IN /\ (bad # {} \/ mk.failed) => (~mk.ret /\ proc = Running /\ invoked = <<>>)
       /\ \A p \in bad : \A i \in 1..Len(mk.tried) : Len(mk.tried[i]) < Len(p)
       /\ \A i \in 1..Len(mk.created) : IsDir(tree, mk.created[i])

\* Mkdirs returned true for a path that names a socket or a block device.
MkdirsTrueOnNonDirectory ==
  /\ mk.pc = "done"
  /\ mk.ret
  /\ IsNonDir(tree, mk.path)

\* A step of the model leaves every entry as it was, adds at most one entry,
\* and what it adds is a directory named by a level of path, longer than
\* every level created before, whose parent is there already.
OnlyAddsLevels ==
  /\ \A k \in DOMAIN tree : k \in DOMAIN tree' /\ tree'[k] = tree[k]
  /\ Cardinality(DOMAIN tree' \ DOMAIN tree) <= 1
  /\ \A k \in DOMAIN tree' \ DOMAIN tree :
       /\ S_ISDIR(tree'[k])
       /\ Parent(k) \in DOMAIN tree
       /\ \E p \in Levels(mk.path) :
            /\ Key(p) = k
            /\ mk'.created = Append(mk.created, p)
            /\ \A i \in 1..Len(mk.created) : Len(mk.created[i]) < Len(p)
  /\ (DOMAIN tree' = DOMAIN tree /\ mk.pc = "loop") => mk'.created = mk.created

\* C10: Mkdirs(path) terminates for every path; it only adds entries: what it
\* creates are levels of path (prefixes that end just before a '/' or '\' at
\* an index of 1 or more, or the whole path), in strictly increasing length,
\* a parent before its child; no entry that was there is removed or altered,
\* whether the call returns true or false.
C10_TerminatesOnlyAdds ==
  /\ (mk.pc = "loop") ~> (mk.pc = "done")
  /\ [][OnlyAddsLevels]_vars
  /\ [](\A k \in DOMAIN mk.tree0 : k \in DOMAIN tree /\ tree[k] = mk.tree0[k])

\* A path split at a backslash: both levels were created, the call is over.
C10_Witness ==
  /\ mk.pc = "done"
  /\ mk.n = 1
  /\ mk.path = <<"a", "\\", "a">>
  /\ mk.created = <<<<"a">>, <<"a", "\\", "a">>>>

\* A call that failed after it had created a level.
FailedAfterCreating ==
  /\ mk.pc = "done"
  /\ ~mk.ret
  /\ mk.failed
  /\ Len(mk.created) >= 1

====
